---------------------------- MODULE Spec2Model ----------------------------
(***************************************************************************)
(* Decoder plugins of Ares (Base32, Base58-Ripple, Base64): the crack      *)
(* pipeline of each plugin, the codec backends it calls, the byte-to-text  *)
(* conversion, the plausibility filter and the outcome record.             *)
(*                                                                         *)
(* A string is a sequence of Unicode code points; its bytes are its UTF-8  *)
(* encoding.  Option<T> is a sequence of length 0 (None) or 1 (Some(x)).   *)
(***************************************************************************)
EXTENDS Integers, Sequences, FiniteSets, TLC

(***************************************************************************)
(* Bounds of the model.                                                    *)
(***************************************************************************)
\* longest exhaustively enumerated input text
MaxLen == 3
\* longest exhaustively enumerated plaintext
MaxPlainLen == 2
\* largest number of '=' appended to an unpadded Base32 string
MaxPad == 7
\* number of parallel workers of the scheduler
NumWorkers == 2

(***************************************************************************)
(* Option<T>                                                               *)
(***************************************************************************)
None == <<>>
Some(x) == <<x>>
is_none(o) == Len(o) = 0
is_some(o) == Len(o) = 1
unwrap(o) == o[1]

(***************************************************************************)
(* Strings and bytes                                                       *)
(***************************************************************************)
RECURSIVE Flatten(_)
Flatten(ss) == IF Len(ss) = 0 THEN <<>> ELSE Head(ss) \o Flatten(Tail(ss))

RECURSIVE Reverse(_)
Reverse(s) == IF Len(s) = 0 THEN <<>> ELSE Append(Reverse(Tail(s)), Head(s))

SelectNot(s, c) == SelectSeq(s, LAMBDA x : x # c)

\* UTF-8 encoding of one code point
Utf8Char(c) ==
    IF c < 128 THEN <<c>>
    ELSE IF c < 2048 THEN <<192 + (c \div 64), 128 + (c % 64)>>
    ELSE IF c < 65536
         THEN <<224 + (c \div 4096), 128 + ((c \div 64) % 64), 128 + (c % 64)>>
         ELSE <<240 + (c \div 262144), 128 + ((c \div 4096) % 64),
                128 + ((c \div 64) % 64), 128 + (c % 64)>>

\* str::as_bytes
as_bytes(s) == Flatten([i \in 1..Len(s) |-> Utf8Char(s[i])])

IsCont(b) == b >= 128 /\ b <= 191

\* reading past the end yields 0, which is no continuation byte
SafeGet(bytes, i) == IF i <= Len(bytes) THEN bytes[i] ELSE 0

\* the second byte allowed after the lead byte of a 3-byte sequence
Second3(b0, b1) ==
    \/ b0 = 224 /\ b1 >= 160 /\ b1 <= 191
    \/ b0 >= 225 /\ b0 <= 236 /\ IsCont(b1)
    \/ b0 = 237 /\ b1 >= 128 /\ b1 <= 159
    \/ b0 >= 238 /\ b0 <= 239 /\ IsCont(b1)

\* the second byte allowed after the lead byte of a 4-byte sequence
Second4(b0, b1) ==
    \/ b0 = 240 /\ b1 >= 144 /\ b1 <= 191
    \/ b0 >= 241 /\ b0 <= 243 /\ IsCont(b1)
    \/ b0 = 244 /\ b1 >= 128 /\ b1 <= 143

\* One step of UTF-8 validation at index i: <<code point, bytes consumed>>,
\* the code point being -1 for an invalid sequence (its maximal prefix).
Utf8Next(bytes, i) ==
    LET b0 == bytes[i]
        b1 == SafeGet(bytes, i + 1)
        b2 == SafeGet(bytes, i + 2)
        b3 == SafeGet(bytes, i + 3)
    IN  IF b0 < 128 THEN <<b0, 1>>
        ELSE IF b0 >= 194 /\ b0 <= 223
             THEN IF IsCont(b1) THEN <<(b0 - 192) * 64 + (b1 - 128), 2>>
                  ELSE <<-1, 1>>
        ELSE IF b0 >= 224 /\ b0 <= 239
             THEN IF ~Second3(b0, b1) THEN <<-1, 1>>
                  ELSE IF ~IsCont(b2) THEN <<-1, 2>>
                  ELSE <<(b0 - 224) * 4096 + (b1 - 128) * 64 + (b2 - 128), 3>>
        ELSE IF b0 >= 240 /\ b0 <= 244
             THEN IF ~Second4(b0, b1) THEN <<-1, 1>>
                  ELSE IF ~IsCont(b2) THEN <<-1, 2>>
                  ELSE IF ~IsCont(b3) THEN <<-1, 3>>
                  ELSE <<(b0 - 240) * 262144 + (b1 - 128) * 4096
                           + (b2 - 128) * 64 + (b3 - 128), 4>>
        ELSE <<-1, 1>>

RECURSIVE Utf8Chunks(_, _)
Utf8Chunks(bytes, i) ==
    IF i > Len(bytes) THEN <<>>
    ELSE LET n == Utf8Next(bytes, i)
         IN  <<n[1]>> \o Utf8Chunks(bytes, i + n[2])

\* String::from_utf8_lossy: every invalid sequence becomes U+FFFD
from_utf8_lossy(bytes) ==
    LET cs == Utf8Chunks(bytes, 1)
    IN  [i \in 1..Len(cs) |-> IF cs[i] = -1 THEN 65533 ELSE cs[i]]

\* String::from_utf8(..).ok(): None when any sequence is invalid
from_utf8_ok(bytes) ==
    LET cs == Utf8Chunks(bytes, 1)
    IN  IF \E i \in 1..Len(cs) : cs[i] = -1 THEN None ELSE Some(cs)

(***************************************************************************)
(* Codec backends.  A decode result is Ok(bytes) = Some(bytes) or an       *)
(* error = None; the plugins never look at the error variant.              *)
(***************************************************************************)
Base32Alphabet ==
    <<65, 66, 67, 68, 69, 70, 71, 72, 73, 74, 75, 76, 77, 78, 79, 80, 81, 82,
      83, 84, 85, 86, 87, 88, 89, 90, 50, 51, 52, 53, 54, 55>>

Base64Alphabet ==
    <<65, 66, 67, 68, 69, 70, 71, 72, 73, 74, 75, 76, 77, 78, 79, 80, 81, 82,
      83, 84, 85, 86, 87, 88, 89, 90, 97, 98, 99, 100, 101, 102, 103, 104,
      105, 106, 107, 108, 109, 110, 111, 112, 113, 114, 115, 116, 117, 118,
      119, 120, 121, 122, 48, 49, 50, 51, 52, 53, 54, 55, 56, 57, 43, 47>>

RippleAlphabet ==
    <<114, 112, 115, 104, 110, 97, 102, 51, 57, 119, 66, 85, 68, 78, 69, 71,
      72, 74, 75, 76, 77, 52, 80, 81, 82, 83, 84, 55, 86, 87, 88, 89, 90, 50,
      98, 99, 100, 101, 67, 103, 54, 53, 106, 107, 109, 56, 111, 70, 113,
      105, 49, 116, 117, 118, 65, 120, 121, 122>>

\* "123456789ABCDEFGHJKLMNPQRSTUVWXYZabcdefghijkmnopqrstuvwxyz"
BitcoinAlphabet ==
    <<49, 50, 51, 52, 53, 54, 55, 56, 57, 65, 66, 67, 68, 69, 70, 71, 72, 74,
      75, 76, 77, 78, 80, 81, 82, 83, 84, 85, 86, 87, 88, 89, 90, 97, 98, 99,
      100, 101, 102, 103, 104, 105, 106, 107, 109, 110, 111, 112, 113, 114,
      115, 116, 117, 118, 119, 120, 121, 122>>

\* '='
PadChar == 61

\* value of symbol b in an alphabet, -1 when b is no symbol of it
SymbolValue(alphabet, b) ==
    IF \E i \in 1..Len(alphabet) : alphabet[i] = b
    THEN (CHOOSE i \in 1..Len(alphabet) : alphabet[i] = b) - 1
    ELSE -1

Pow2(n) == 2 ^ n

\* vals[j], and 0 outside the sequence
Window(vals, j) == IF j >= 1 /\ j <= Len(vals) THEN vals[j] ELSE 0

\* The k-th group of `outw` bits of the bit string that a sequence of
\* `inw`-bit values spells, most significant bit first; bits past the end
\* of the sequence are zero.  A group lies within three consecutive values.
Group(vals, inw, outw, k) ==
    LET start == outw * (k - 1)
        first == start \div inw
        off == start - inw * first
        v == Window(vals, first + 1) * Pow2(2 * inw)
               + Window(vals, first + 2) * Pow2(inw)
               + Window(vals, first + 3)
    IN  (v \div Pow2(3 * inw - off - outw)) % Pow2(outw)

\* the whole bytes that n symbols of `inw` bits spell
DecodeBytes(vals, inw) ==
    [k \in 1..((inw * Len(vals)) \div 8) |-> Group(vals, inw, 8, k)]

\* the bits of the last symbol that belong to no whole byte
TrailingBits(vals, inw) ==
    IF Len(vals) = 0 THEN 0
    ELSE vals[Len(vals)] % Pow2((inw * Len(vals)) % 8)

\* data_encoding::BASE32_NOPAD.decode: fails on a length no encoding has,
\* on a byte outside the alphabet and on non-zero trailing bits.
BASE32_NOPAD_decode(bytes) ==
    LET vals == [i \in 1..Len(bytes) |-> SymbolValue(Base32Alphabet, bytes[i])]
    IN  IF (Len(bytes) % 8) \in {1, 3, 6} THEN None
        ELSE IF \E i \in 1..Len(vals) : vals[i] = -1 THEN None
        ELSE IF TrailingBits(vals, 5) # 0 THEN None
        ELSE Some(DecodeBytes(vals, 5))

\* base64::decode (standard alphabet): '=' may only close a quantum, at
\* offset 2 or 3 of it, with no symbol after it; missing padding is
\* accepted; fails on a byte outside the alphabet, on a lone trailing
\* symbol and on non-zero trailing bits.
base64_decode(bytes) ==
    LET n == Len(bytes)
        pads == {i \in 1..n : bytes[i] = PadChar}
        syms == SelectNot(bytes, PadChar)
        vals == [i \in 1..Len(syms) |-> SymbolValue(Base64Alphabet, syms[i])]
    IN  IF \E i \in pads : ((i - 1) % 4) < 2 THEN None
        ELSE IF \E i \in pads : \E j \in (i + 1)..n : j \notin pads THEN None
        ELSE IF \E i \in 1..Len(vals) : vals[i] = -1 THEN None
        ELSE IF (Len(vals) % 4) = 1 THEN None
        ELSE IF TrailingBits(vals, 6) # 0 THEN None
        ELSE Some(DecodeBytes(vals, 6))

\* bs58: one pass of "output = output * 58 + val" over the little-endian
\* byte array, returning the array with the carry bytes appended.
RECURSIVE MulAdd(_, _, _, _, _)
MulAdd(output, k, val, base, radix) ==
    IF k <= Len(output)
    THEN LET v == val + output[k] * base
         IN  MulAdd([output EXCEPT ![k] = v % radix], k + 1, v \div radix,
                    base, radix)
    ELSE IF val > 0
         THEN MulAdd(Append(output, val % radix), k + 1, val \div radix,
                     base, radix)
         ELSE output

RECURSIVE Accumulate(_, _, _, _, _)
Accumulate(vals, i, output, base, radix) ==
    IF i > Len(vals) THEN output
    ELSE LET o == MulAdd(output, 1, vals[i], base, radix)
         IN  IF Len(o) >= 0 THEN Accumulate(vals, i + 1, o, base, radix)
             ELSE o

RECURSIVE LeadingCount(_, _)
LeadingCount(s, c) ==
    IF Len(s) > 0 /\ Head(s) = c THEN 1 + LeadingCount(Tail(s), c) ELSE 0

\* bs58::decode(text).with_alphabet(Alphabet::RIPPLE).into_vec()
bs58_decode_ripple(bytes) ==
    LET vals == [i \in 1..Len(bytes) |-> SymbolValue(RippleAlphabet, bytes[i])]
        zeros == LeadingCount(bytes, RippleAlphabet[1])
        le == Accumulate(vals, 1, <<>>, 58, 256)
    IN  IF \E i \in 1..Len(bytes) : bytes[i] > 127 THEN None
        ELSE IF \E i \in 1..Len(vals) : vals[i] = -1 THEN None
        ELSE Some(Reverse(le \o [i \in 1..zeros |-> 0]))

(***************************************************************************)
(* Encoders, the inverses of the codec backends: they produce the valid    *)
(* encodings the round-trip properties quantify over.                      *)
(***************************************************************************)
\* the symbols of an encoding whose last group is filled up with zero bits
EncodeSymbols(alphabet, bytes, outw) ==
    LET n == (8 * Len(bytes) + outw - 1) \div outw
    IN  [k \in 1..n |-> alphabet[Group(bytes, 8, outw, k) + 1]]

\* '=' up to the next multiple of `quantum` symbols
Padding(n, quantum) == [i \in 1..((quantum - (n % quantum)) % quantum) |-> PadChar]

Base32EncodeNoPad(plain) == EncodeSymbols(Base32Alphabet, as_bytes(plain), 5)

Base32Encode(plain) ==
    LET e == Base32EncodeNoPad(plain) IN e \o Padding(Len(e), 8)

Base64Encode(plain) ==
    LET e == EncodeSymbols(Base64Alphabet, as_bytes(plain), 6)
    IN  e \o Padding(Len(e), 4)

Base58RippleEncode(plain) ==
    LET bytes == as_bytes(plain)
        zeros == LeadingCount(bytes, 0)
        le == Accumulate(bytes, 1, <<>>, 256, 58)
        digits == Reverse(le \o [i \in 1..zeros |-> 0])
    IN  [i \in 1..Len(digits) |-> RippleAlphabet[digits[i] + 1]]

(***************************************************************************)
(* Plugin descriptors                                                      *)
(***************************************************************************)
Base32Decoder_new ==
    [name |-> "Base32", link |-> "https://en.wikipedia.org/wiki/Base32",
     tags |-> <<"base32", "decoder", "base">>, popularity |-> "0.8"]

Base58RippleDecoder_new ==
    [name |-> "base58_ripple", link |-> "https://en.wikipedia.org/wiki/Base58",
     tags |-> <<"base58_ripple", "base58", "ripple", "cryptocurrency",
                "decoder", "base">>,
     popularity |-> "0.8"]

Base64Decoder_new ==
    [name |-> "base64", link |-> "https://en.wikipedia.org/wiki/Base64",
     tags |-> <<"base64", "decoder", "baser">>, popularity |-> "1.1"]

\* the schemes whose crack takes a checker and returns a CrackResult
RecordSchemes == {"Base32", "base58_ripple"}
Schemes == RecordSchemes \cup {"base64"}

NewDecoders ==
    [s \in Schemes |->
        CASE s = "Base32" -> Base32Decoder_new
          [] s = "base58_ripple" -> Base58RippleDecoder_new
          [] s = "base64" -> Base64Decoder_new]

(***************************************************************************)
(* Plausibility filter, checker and outcome record                         *)
(***************************************************************************)
\* rejects the empty decode and the decode identical to the input
check_string_success(decoded_text, original_text) ==
    IF Len(decoded_text) = 0 THEN FALSE
    ELSE decoded_text # original_text

\* Two checkers: one identifies printable ASCII text, one identifies nothing.
Checkers == {"printable", "never"}

IsPrintable(t) == \A i \in 1..Len(t) : t[i] >= 32 /\ t[i] <= 126

check(checker, t) ==
    IF checker = "printable" /\ IsPrintable(t)
    THEN [is_identified |-> TRUE, description |-> "printable text",
          checker_name |-> checker]
    ELSE [is_identified |-> FALSE, description |-> "", checker_name |-> checker]

CrackResult_new(decoder, t) ==
    [source_descriptor |-> decoder.name, input_text |-> t,
     unencrypted_text |-> None,
     is_identified |-> FALSE, description |-> "", checker_name |-> ""]

\* a merge that accumulates the description instead of overwriting it
update_checker_Append(r, checker_result) ==
    [r EXCEPT !.is_identified = checker_result.is_identified,
              !.description = @ \o checker_result.description,
              !.checker_name = checker_result.checker_name]

update_checker(r, checker_result) ==
    [r EXCEPT !.is_identified = checker_result.is_identified,
              !.description = checker_result.description,
              !.checker_name = checker_result.checker_name]

(***************************************************************************)
(* The decoding helpers of the plugins                                     *)
(***************************************************************************)
\* the helper without the removal of '='
decode_base32_KeepPadding(t) ==
    LET decoded == BASE32_NOPAD_decode(as_bytes(t))
    IN  IF is_some(decoded) THEN Some(from_utf8_lossy(unwrap(decoded)))
        ELSE None

decode_base32_no_error_handling(t) ==
    LET stripped == SelectNot(t, PadChar)
        decoded == BASE32_NOPAD_decode(as_bytes(stripped))
    IN  IF is_some(decoded) THEN Some(from_utf8_lossy(unwrap(decoded)))
        ELSE None

\* the helper decoding with the Bitcoin alphabet instead of the Ripple one
decode_base58_BitcoinAlphabet(t) ==
    LET bytes == as_bytes(t)
        vals == [i \in 1..Len(bytes) |-> SymbolValue(BitcoinAlphabet, bytes[i])]
        zeros == LeadingCount(bytes, BitcoinAlphabet[1])
        le == Accumulate(vals, 1, <<>>, 58, 256)
    IN  IF \E i \in 1..Len(bytes) : bytes[i] > 127 THEN None
        ELSE IF \E i \in 1..Len(vals) : vals[i] = -1 THEN None
        ELSE Some(from_utf8_lossy(Reverse(le \o [i \in 1..zeros |-> 0])))

decode_base58_ripple_no_error_handling(t) ==
    LET decoded == bs58_decode_ripple(as_bytes(t))
    IN  IF is_some(decoded) THEN Some(from_utf8_lossy(unwrap(decoded)))
        ELSE None

decode_base64_no_error_handling(t) ==
    LET decoded == base64_decode(as_bytes(t))
    IN  IF is_some(decoded) THEN from_utf8_ok(unwrap(decoded)) ELSE None

\* the helper the crack of a record scheme calls
no_error_handling(s, t) ==
    IF s = "Base32" THEN decode_base32_no_error_handling(t)
    ELSE decode_base58_ripple_no_error_handling(t)

\* the candidate field: Base32 reports a vector of one candidate,
\* Base58-Ripple the candidate itself
WrapCandidate(s, d) == IF s = "Base32" THEN Some(<<d>>) ELSE Some(d)

(***************************************************************************)
(* crack as a function of its arguments, as one uninterrupted call         *)
(***************************************************************************)
Crack(self, t, checker) ==
    LET decoded_text == no_error_handling(self.name, t)
        results == CrackResult_new(self, t)
    IN  IF is_none(decoded_text) THEN results
        ELSE IF ~check_string_success(unwrap(decoded_text), t) THEN results
        ELSE update_checker(
                 [results EXCEPT !.unencrypted_text =
                                     WrapCandidate(self.name, unwrap(decoded_text))],
                 check(checker, unwrap(decoded_text)))

Base64Crack(t) ==
    LET decoded_text == decode_base64_no_error_handling(t)
    IN  IF is_none(decoded_text) THEN None
        ELSE IF ~check_string_success(unwrap(decoded_text), t) THEN None
        ELSE Some(unwrap(decoded_text))

(***************************************************************************)
(* Inputs                                                                  *)
(***************************************************************************)
SeqsUpTo(S, n) == UNION {[1..k -> S] : k \in 0..n}

\* 'M', 'Q', '/', '=' and the emoji U+1F602
InputChars == {77, 81, 47, PadChar, 128514}
ShortTexts == SeqsUpTo(InputChars, MaxLen)

HelloWorld == <<104, 101, 108, 108, 111, 32, 119, 111, 114, 108, 100>>
ZeroPadding ==
    <<84, 104, 105, 115, 32, 104, 97, 115, 32, 122, 101, 114, 111, 32, 112,
      97, 100, 100, 105, 110, 103>>
IncorrectPadding ==
    <<73, 110, 99, 111, 114, 114, 101, 99, 116, 32, 112, 97, 100, 100, 105,
      110, 103>>

\* "NBSWY3DPEB3W64TMMQ======"
Base32HelloWorld ==
    <<78, 66, 83, 87, 89, 51, 68, 80, 69, 66, 51, 87, 54, 52, 84, 77, 77, 81,
      61, 61, 61, 61, 61, 61>>
\* "KRUGS4ZANBQXGID2MVZG6IDQMFSGI2LOM4"
Base32ZeroPadding ==
    <<75, 82, 85, 71, 83, 52, 90, 65, 78, 66, 81, 88, 71, 73, 68, 50, 77, 86,
      90, 71, 54, 73, 68, 81, 77, 70, 83, 71, 73, 50, 76, 79, 77, 52>>
\* "JFXGG33SOJSWG5BAOBQWIZDJNZTQ=="
Base32BrokenPadding ==
    <<74, 70, 88, 71, 71, 51, 51, 83, 79, 74, 83, 87, 71, 53, 66, 65, 79, 66,
      81, 87, 73, 90, 68, 74, 78, 90, 84, 81, 61, 61>>
\* "StVrDLaUATiyKyV"
Base58HelloWorld ==
    <<83, 116, 86, 114, 68, 76, 97, 85, 65, 84, 105, 121, 75, 121, 86>>
\* "aGVsbG8gd29ybGQ="
Base64HelloWorld ==
    <<97, 71, 86, 115, 98, 71, 56, 103, 100, 50, 57, 121, 98, 71, 81, 61>>
\* "hello my name is panicky mc panic face!"
Panicky ==
    <<104, 101, 108, 108, 111, 32, 109, 121, 32, 110, 97, 109, 101, 32, 105,
      115, 32, 112, 97, 110, 105, 99, 107, 121, 32, 109, 99, 32, 112, 97,
      110, 105, 99, 32, 102, 97, 99, 101, 33>>
\* "hello good day!"
GoodDay ==
    <<104, 101, 108, 108, 111, 32, 103, 111, 111, 100, 32, 100, 97, 121, 33>>
Emoji == <<128514>>

TestVectors ==
    {Base32HelloWorld, Base32ZeroPadding, Base32BrokenPadding,
     Base58HelloWorld, Base64HelloWorld, Panicky, GoodDay, Emoji, <<>>}

\* NUL, 'a' and U+00E9
PlainChars == {0, 97, 233}
Plaintexts ==
    SeqsUpTo(PlainChars, MaxPlainLen)
        \cup {HelloWorld, ZeroPadding, IncorrectPadding}

Encode(s, plain) ==
    CASE s = "Base32" -> Base32Encode(plain)
      [] s = "base58_ripple" -> Base58RippleEncode(plain)
      [] s = "base64" -> Base64Encode(plain)

Encodings == {Encode(s, plain) : s \in Schemes, plain \in Plaintexts}

\* an unpadded Base32 encoding followed by any number of '='
PaddedVariants ==
    {Base32EncodeNoPad(plain) \o [i \in 1..k |-> PadChar] :
        plain \in Plaintexts, k \in 0..MaxPad}

Texts == ShortTexts \cup TestVectors \cup Encodings \cup PaddedVariants

\* the texts of the parallel search: "MQ", "/Q" and ""
ParTexts == {<<77, 81>>, <<47, 81>>, <<>>}

(***************************************************************************)
(* The scheduler and its workers                                           *)
(***************************************************************************)
Workers == 1..NumWorkers

VARIABLES
    parallel,       \* whether the search runs on parallel workers
    decoders,       \* the plugin descriptors, one per scheme
    pc,             \* where each worker is in its crack call
    scheme,         \* the plugin a worker is running
    text,           \* argument `text` of the call
    checker,        \* argument `checker` of the call
    decoded_text,   \* local of crack
    results,        \* local of crack
    checker_result, \* local of crack
    ret,            \* what the call returned
    checker_calls,  \* how often the call invoked the checker
    checker_args    \* the texts the call handed to the checker, in order

vars ==
    <<parallel, decoders, pc, scheme, text, checker, decoded_text, results,
      checker_result, ret, checker_calls, checker_args>>

Active == IF parallel THEN Workers ELSE {1}
Pool == IF parallel THEN ParTexts ELSE Texts

NoVerdict == [is_identified |-> FALSE, description |-> "", checker_name |-> ""]

InitLocals ==
    /\ decoders = NewDecoders
    /\ pc = [w \in Workers |-> "idle"]
    /\ scheme = [w \in Workers |-> "none"]
    /\ text = [w \in Workers |-> <<>>]
    /\ checker = [w \in Workers |-> "none"]
    /\ decoded_text = [w \in Workers |-> None]
    /\ results = [w \in Workers |-> None]
    /\ checker_result = [w \in Workers |-> NoVerdict]
    /\ ret = [w \in Workers |-> None]
    /\ checker_calls = [w \in Workers |-> 0]
    /\ checker_args = [w \in Workers |-> <<>>]

Init == parallel = FALSE /\ InitLocals

InitPar == parallel = TRUE /\ InitLocals

\* the scheduler calls crack(text, checker) of a record scheme on a worker
Call(w) ==
    /\ pc[w] = "idle"
    /\ \E s \in RecordSchemes, t \in Pool, c \in Checkers :
          /\ scheme' = [scheme EXCEPT ![w] = s]
          /\ text' = [text EXCEPT ![w] = t]
          /\ checker' = [checker EXCEPT ![w] = c]
    /\ pc' = [pc EXCEPT ![w] = "decode"]
    /\ decoded_text' = [decoded_text EXCEPT ![w] = None]
    /\ results' = [results EXCEPT ![w] = None]
    /\ checker_result' = [checker_result EXCEPT ![w] = NoVerdict]
    /\ ret' = [ret EXCEPT ![w] = None]
    /\ checker_calls' = [checker_calls EXCEPT ![w] = 0]
    /\ checker_args' = [checker_args EXCEPT ![w] = <<>>]
    /\ UNCHANGED <<parallel, decoders>>

\* the scheduler calls Base64Decoder::crack(text) on a worker
Base64Call(w) ==
    /\ pc[w] = "idle"
    /\ \E t \in Pool : text' = [text EXCEPT ![w] = t]
    /\ scheme' = [scheme EXCEPT ![w] = "base64"]
    /\ checker' = [checker EXCEPT ![w] = "none"]
    /\ pc' = [pc EXCEPT ![w] = "b64_decode"]
    /\ decoded_text' = [decoded_text EXCEPT ![w] = None]
    /\ results' = [results EXCEPT ![w] = None]
    /\ checker_result' = [checker_result EXCEPT ![w] = NoVerdict]
    /\ ret' = [ret EXCEPT ![w] = None]
    /\ checker_calls' = [checker_calls EXCEPT ![w] = 0]
    /\ checker_args' = [checker_args EXCEPT ![w] = <<>>]
    /\ UNCHANGED <<parallel, decoders>>

(***************************************************************************)
(* Decoder<Base32Decoder>::crack and Decoder<Base58RippleDecoder>::crack   *)
(***************************************************************************)
\* crack decoding into a buffer that all workers share
Decode_SharedBuffer(w) ==
    /\ pc[w] = "decode"
    /\ decoded_text' =
          [v \in Workers |-> no_error_handling(scheme[w], text[w])]
    /\ results' =
          [results EXCEPT ![w] = CrackResult_new(decoders[scheme[w]], text[w])]
    /\ pc' = [pc EXCEPT ![w] = "is_none"]
    /\ UNCHANGED <<parallel, decoders, scheme, text, checker, checker_result,
                   ret, checker_calls,
                   checker_args>>

\* let decoded_text = decode_.._no_error_handling(text);
\* let mut results = CrackResult::new(self, text.to_string());
Decode(w) ==
    /\ pc[w] = "decode"
    /\ decoded_text' =
          [decoded_text EXCEPT ![w] = no_error_handling(scheme[w], text[w])]
    /\ results' =
          [results EXCEPT ![w] = CrackResult_new(decoders[scheme[w]], text[w])]
    /\ pc' = [pc EXCEPT ![w] = "is_none"]
    /\ UNCHANGED <<parallel, decoders, scheme, text, checker, checker_result,
                   ret, checker_calls,
                   checker_args>>

\* crack without the early return on a failed decode
CheckNone_NoReturn(w) ==
    /\ pc[w] = "is_none"
    /\ pc' = [pc EXCEPT ![w] = "unwrap"]
    /\ UNCHANGED <<parallel, decoders, scheme, text, checker, decoded_text,
                   results, checker_result, ret, checker_calls,
                   checker_args>>

\* if decoded_text.is_none() { return results; }
CheckNone(w) ==
    /\ pc[w] = "is_none"
    /\ IF is_none(decoded_text[w])
       THEN /\ ret' = [ret EXCEPT ![w] = results[w]]
            /\ pc' = [pc EXCEPT ![w] = "done"]
       ELSE /\ pc' = [pc EXCEPT ![w] = "unwrap"]
            /\ UNCHANGED ret
    /\ UNCHANGED <<parallel, decoders, scheme, text, checker, decoded_text,
                   results, checker_result, checker_calls,
                   checker_args>>

\* crack with the test of the filter inverted
Filter_Inverted(w) ==
    /\ pc[w] = "unwrap"
    /\ IF is_none(decoded_text[w])
       THEN /\ pc' = [pc EXCEPT ![w] = "panicked"]
            /\ UNCHANGED ret
       ELSE IF check_string_success(unwrap(decoded_text[w]), text[w])
       THEN /\ ret' = [ret EXCEPT ![w] = results[w]]
            /\ pc' = [pc EXCEPT ![w] = "done"]
       ELSE /\ pc' = [pc EXCEPT ![w] = "check"]
            /\ UNCHANGED ret
    /\ UNCHANGED <<parallel, decoders, scheme, text, checker, decoded_text,
                   results, checker_result, checker_calls,
                   checker_args>>

\* crack without the early return on a rejection by the filter
Filter_NoReject(w) ==
    /\ pc[w] = "unwrap"
    /\ IF is_none(decoded_text[w])
       THEN pc' = [pc EXCEPT ![w] = "panicked"]
       ELSE pc' = [pc EXCEPT ![w] = "check"]
    /\ UNCHANGED <<parallel, decoders, scheme, text, checker, decoded_text,
                   results, checker_result, ret, checker_calls,
                   checker_args>>

\* let decoded_text = decoded_text.unwrap();
\* if !check_string_success(&decoded_text, text) { return results; }
Filter(w) ==
    /\ pc[w] = "unwrap"
    /\ IF is_none(decoded_text[w])
       THEN /\ pc' = [pc EXCEPT ![w] = "panicked"]
            /\ UNCHANGED ret
       ELSE IF ~check_string_success(unwrap(decoded_text[w]), text[w])
       THEN /\ ret' = [ret EXCEPT ![w] = results[w]]
            /\ pc' = [pc EXCEPT ![w] = "done"]
       ELSE /\ pc' = [pc EXCEPT ![w] = "check"]
            /\ UNCHANGED ret
    /\ UNCHANGED <<parallel, decoders, scheme, text, checker, decoded_text,
                   results, checker_result, checker_calls,
                   checker_args>>

\* let checker_result = checker.check(&decoded_text);
Check(w) ==
    /\ pc[w] = "check"
    /\ checker_result' =
          [checker_result EXCEPT
              ![w] = check(checker[w], unwrap(decoded_text[w]))]
    /\ checker_calls' = [checker_calls EXCEPT ![w] = @ + 1]
    /\ checker_args' =
          [checker_args EXCEPT ![w] = Append(@, unwrap(decoded_text[w]))]
    /\ pc' = [pc EXCEPT ![w] = "assemble"]
    /\ UNCHANGED <<parallel, decoders, scheme, text, checker, decoded_text,
                   results, ret>>

\* crack keeping the candidate only when the checker identified it
Assemble_OnlyIfIdentified(w) ==
    /\ pc[w] = "assemble"
    /\ results' =
          [results EXCEPT
              ![w].unencrypted_text =
                  IF checker_result[w].is_identified
                  THEN WrapCandidate(scheme[w], unwrap(decoded_text[w]))
                  ELSE None]
    /\ pc' = [pc EXCEPT ![w] = "update"]
    /\ UNCHANGED <<parallel, decoders, scheme, text, checker, decoded_text,
                   checker_result, ret, checker_calls,
                   checker_args>>

\* results.unencrypted_text = Some(vec![decoded_text]);   (Base32)
\* results.unencrypted_text = Some(decoded_text);         (Base58-Ripple)
Assemble(w) ==
    /\ pc[w] = "assemble"
    /\ results' =
          [results EXCEPT
              ![w].unencrypted_text =
                  WrapCandidate(scheme[w], unwrap(decoded_text[w]))]
    /\ pc' = [pc EXCEPT ![w] = "update"]
    /\ UNCHANGED <<parallel, decoders, scheme, text, checker, decoded_text,
                   checker_result, ret, checker_calls,
                   checker_args>>

\* results.update_checker(&checker_result);
UpdateChecker(w) ==
    /\ pc[w] = "update"
    /\ results' =
          [results EXCEPT ![w] = update_checker(@, checker_result[w])]
    /\ pc' = [pc EXCEPT ![w] = "return"]
    /\ UNCHANGED <<parallel, decoders, scheme, text, checker, decoded_text,
                   checker_result, ret, checker_calls,
                   checker_args>>

\* results
Return(w) ==
    /\ pc[w] = "return"
    /\ ret' = [ret EXCEPT ![w] = results[w]]
    /\ pc' = [pc EXCEPT ![w] = "done"]
    /\ UNCHANGED <<parallel, decoders, scheme, text, checker, decoded_text,
                   results, checker_result, checker_calls,
                   checker_args>>

(***************************************************************************)
(* Base64Decoder::crack                                                    *)
(***************************************************************************)
\* let decoded_text = Base64Decoder::decode_base64_no_error_handling(text);
Base64Decode(w) ==
    /\ pc[w] = "b64_decode"
    /\ decoded_text' =
          [decoded_text EXCEPT ![w] = decode_base64_no_error_handling(text[w])]
    /\ pc' = [pc EXCEPT ![w] = "b64_is_none"]
    /\ UNCHANGED <<parallel, decoders, scheme, text, checker, results,
                   checker_result, ret, checker_calls,
                   checker_args>>

\* if decoded_text.is_none() { return None; }
Base64CheckNone(w) ==
    /\ pc[w] = "b64_is_none"
    /\ IF is_none(decoded_text[w])
       THEN /\ ret' = [ret EXCEPT ![w] = None]
            /\ pc' = [pc EXCEPT ![w] = "done"]
       ELSE /\ pc' = [pc EXCEPT ![w] = "b64_unwrap"]
            /\ UNCHANGED ret
    /\ UNCHANGED <<parallel, decoders, scheme, text, checker, decoded_text,
                   results, checker_result, checker_calls,
                   checker_args>>

\* Base64 crack without the early return on a rejection by the filter
Base64Filter_NoReject(w) ==
    /\ pc[w] = "b64_unwrap"
    /\ IF is_none(decoded_text[w])
       THEN /\ pc' = [pc EXCEPT ![w] = "panicked"]
            /\ UNCHANGED ret
       ELSE /\ ret' = [ret EXCEPT ![w] = Some(unwrap(decoded_text[w]))]
            /\ pc' = [pc EXCEPT ![w] = "done"]
    /\ UNCHANGED <<parallel, decoders, scheme, text, checker, decoded_text,
                   results, checker_result, checker_calls,
                   checker_args>>

\* let decoded_text = decoded_text.unwrap();
\* if !check_string_success(&decoded_text, text) { return None; }
\* return Some(decoded_text);
Base64Filter(w) ==
    /\ pc[w] = "b64_unwrap"
    /\ IF is_none(decoded_text[w])
       THEN /\ pc' = [pc EXCEPT ![w] = "panicked"]
            /\ UNCHANGED ret
       ELSE IF ~check_string_success(unwrap(decoded_text[w]), text[w])
       THEN /\ ret' = [ret EXCEPT ![w] = None]
            /\ pc' = [pc EXCEPT ![w] = "done"]
       ELSE /\ ret' = [ret EXCEPT ![w] = Some(unwrap(decoded_text[w]))]
            /\ pc' = [pc EXCEPT ![w] = "done"]
    /\ UNCHANGED <<parallel, decoders, scheme, text, checker, decoded_text,
                   results, checker_result, checker_calls,
                   checker_args>>

\* the scheduler has consumed the returned value, which is dropped with the
\* locals of the call; the worker is free again
Finish(w) ==
    /\ pc[w] = "done"
    /\ pc' = [pc EXCEPT ![w] = "idle"]
    /\ scheme' = [scheme EXCEPT ![w] = "none"]
    /\ text' = [text EXCEPT ![w] = <<>>]
    /\ checker' = [checker EXCEPT ![w] = "none"]
    /\ decoded_text' = [decoded_text EXCEPT ![w] = None]
    /\ results' = [results EXCEPT ![w] = None]
    /\ checker_result' = [checker_result EXCEPT ![w] = NoVerdict]
    /\ ret' = [ret EXCEPT ![w] = None]
    /\ checker_calls' = [checker_calls EXCEPT ![w] = 0]
    /\ checker_args' = [checker_args EXCEPT ![w] = <<>>]
    /\ UNCHANGED <<parallel, decoders>>

Next ==
    \/ \E w \in Active : Call(w)
    \/ \E w \in Active : Base64Call(w)
    \/ \E w \in Active : Decode(w)
    \/ \E w \in Active : CheckNone(w)
    \/ \E w \in Active : Filter(w)
    \/ \E w \in Active : Check(w)
    \/ \E w \in Active : Assemble(w)
    \/ \E w \in Active : UpdateChecker(w)
    \/ \E w \in Active : Return(w)
    \/ \E w \in Active : Base64Decode(w)
    \/ \E w \in Active : Base64CheckNone(w)
    \/ \E w \in Active : Base64Filter(w)
    \/ \E w \in Active : Finish(w)

\* a single-threaded search over every input text
Spec == Init /\ [][Next]_vars

\* a search on parallel workers
SpecPar == InitPar /\ [][Next]_vars

(***************************************************************************)
(* Reading a returned value                                                *)
(***************************************************************************)
\* the candidate strings a call of scheme s returned in r
Candidates(s, r) ==
    IF s = "base64" THEN (IF is_some(r) THEN {unwrap(r)} ELSE {})
    ELSE IF is_none(r.unencrypted_text) THEN {}
    ELSE IF s = "Base32"
         THEN {unwrap(r.unencrypted_text)[i] :
                   i \in 1..Len(unwrap(r.unencrypted_text))}
         ELSE {unwrap(r.unencrypted_text)}

\* unencrypted_text is None
NoCandidate(s, r) ==
    IF s = "base64" THEN is_none(r) ELSE is_none(r.unencrypted_text)

\* what the decoding helper of scheme s makes of t
HelperDecode(s, t) ==
    IF s = "base64" THEN decode_base64_no_error_handling(t)
    ELSE no_error_handling(s, t)

\* the bytes the codec backend of scheme s is given for t
CodecInput(s, t) ==
    IF s = "Base32" THEN as_bytes(SelectNot(t, PadChar)) ELSE as_bytes(t)

\* the result of the codec backend of scheme s on t, at the byte level
CodecDecode(s, t) ==
    CASE s = "Base32" -> BASE32_NOPAD_decode(CodecInput(s, t))
      [] s = "base58_ripple" -> bs58_decode_ripple(CodecInput(s, t))
      [] s = "base64" -> base64_decode(CodecInput(s, t))

\* the characters a text of scheme s may hold: the symbols of its alphabet
\* and, for Base64, the padding character
CharSet(s) ==
    CASE s = "Base32" -> {Base32Alphabet[i] : i \in 1..Len(Base32Alphabet)}
      [] s = "base58_ripple" ->
            {RippleAlphabet[i] : i \in 1..Len(RippleAlphabet)}
      [] s = "base64" ->
            {Base64Alphabet[i] : i \in 1..Len(Base64Alphabet)} \cup {PadChar}

\* every byte given to the codec is a character of the scheme
ValidAlphabet(s, t) ==
    \A i \in 1..Len(CodecInput(s, t)) : CodecInput(s, t)[i] \in CharSet(s)

\* worker w is inside a call of crack
Running(w) == pc[w] \notin {"idle", "done"}

\* the places of a call up to its test of the decode result
UpToNoneCheck == {"decode", "is_none", "b64_decode", "b64_is_none"}

(***************************************************************************)
(* Properties                                                              *)
(***************************************************************************)
\* C1: for every scheme, crack of the empty string returns no candidate.
C1_EmptyInputNoCandidate ==
    \A w \in Workers :
        (pc[w] = "done" /\ text[w] = <<>>) => NoCandidate(scheme[w], ret[w])

\* Each scheme has returned from crack("") with no candidate although its
\* codec accepted the empty string and decoded it to the empty text.
C1_Witness ==
    \E w \in Workers :
        /\ pc[w] = "done" /\ text[w] = <<>>
        /\ scheme[w] = "base58_ripple"
        /\ CodecDecode(scheme[w], text[w]) = Some(<<>>)
        /\ decoded_text[w] = Some(<<>>)
        /\ NoCandidate(scheme[w], ret[w])

\* C2: no returned candidate is identical to the input text, and none is
\* the empty string.
C2_CandidateDiffersFromInput ==
    \A w \in Workers :
        pc[w] = "done" =>
            \A c \in Candidates(scheme[w], ret[w]) : c # text[w] /\ c # <<>>

\* A call has returned a candidate.
C2_Witness ==
    \E w \in Workers :
        /\ pc[w] = "done"
        /\ scheme[w] = "Base32"
        /\ Candidates(scheme[w], ret[w]) # {}
        /\ Candidates(scheme[w], ret[w]) = {unwrap(decoded_text[w])}

C4_LossyTextForwarded ==
    \A w \in Workers :
        (pc[w] = "done" /\ is_some(CodecDecode(scheme[w], text[w]))) =>
            LET lossy == from_utf8_lossy(unwrap(CodecDecode(scheme[w], text[w])))
            IN  check_string_success(lossy, text[w]) =>
                    Candidates(scheme[w], ret[w]) = {lossy}

\* C5: the checker is invoked only after a successful decode that the
\* filter accepted; a call that ends on a decode failure or on a rejection
\* returns no candidate and an unset verdict and has not called the checker.
C5_CheckerOnlyAfterFilter ==
    \A w \in Workers :
        LET d == HelperDecode(scheme[w], text[w])
            accepted == is_some(d) /\ check_string_success(unwrap(d), text[w])
        IN  /\ (Running(w) \/ pc[w] = "done") =>
                  (checker_calls[w] > 0 => accepted)
            /\ (pc[w] = "done" /\ ~accepted) =>
                  /\ NoCandidate(scheme[w], ret[w])
                  /\ checker_calls[w] = 0
                  /\ scheme[w] \in RecordSchemes =>
                        /\ ret[w].is_identified = NoVerdict.is_identified
                        /\ ret[w].description = NoVerdict.description
                        /\ ret[w].checker_name = NoVerdict.checker_name

\* A call whose decode succeeded has returned after the filter rejected it.
C5_Witness ==
    \E w \in Workers :
        /\ pc[w] = "done"
        /\ scheme[w] \in RecordSchemes
        /\ is_some(decoded_text[w])
        /\ ~check_string_success(unwrap(decoded_text[w]), text[w])
        /\ checker_calls[w] = 0
        /\ NoCandidate(scheme[w], ret[w])

\* C6: the candidate does not depend on the checker's verdict: a decode
\* that the filter accepted is returned as the candidate under every
\* checker, and the flag of the record is the flag of the verdict.
C6_CandidateIndependentOfVerdict ==
    \A w \in Workers :
        (pc[w] = "done" /\ scheme[w] \in RecordSchemes) =>
            LET d == HelperDecode(scheme[w], text[w])
            IN  /\ \A c \in Checkers :
                      Crack(decoders[scheme[w]], text[w], c).unencrypted_text
                          = ret[w].unencrypted_text
                /\ (is_some(d) /\ check_string_success(unwrap(d), text[w])) =>
                      /\ Candidates(scheme[w], ret[w]) = {unwrap(d)}
                      /\ ret[w].is_identified
                            = check(checker[w], unwrap(d)).is_identified

\* A call has returned a candidate that its checker, which identifies some
\* texts, did not identify.
C6_Witness ==
    \E w \in Workers :
        /\ pc[w] = "done"
        /\ scheme[w] \in RecordSchemes
        /\ checker[w] = "printable"
        /\ checker_calls[w] = 1
        /\ ~ret[w].is_identified
        /\ Candidates(scheme[w], ret[w]) # {}

\* C7 as stated: crack of the valid encoding of any plaintext yields that
\* plaintext as its candidate.
C7_RoundTripAnyPlaintext ==
    \A w \in Workers :
        pc[w] = "done" =>
            \A plain \in Plaintexts :
                text[w] = Encode(scheme[w], plain) =>
                    Candidates(scheme[w], ret[w]) = {plain}

\* C7, amended: crack of the valid encoding of any non-empty plaintext
\* yields that plaintext as its candidate.
C7_RoundTripNonEmpty ==
    \A w \in Workers :
        pc[w] = "done" =>
            \A plain \in Plaintexts \ {<<>>} :
                text[w] = Encode(scheme[w], plain) =>
                    Candidates(scheme[w], ret[w]) = {plain}

\* The Base58-Ripple call on "StVrDLaUATiyKyV" has returned "hello world".
C7_Witness ==
    \E w \in Workers :
        /\ pc[w] = "done"
        /\ scheme[w] = "base58_ripple"
        /\ text[w] = Base58HelloWorld
        /\ text[w] = Encode(scheme[w], HelloWorld)
        /\ Candidates(scheme[w], ret[w]) = {HelloWorld}

\* C8: Base32 crack of the unpadded encoding of a non-empty plaintext with
\* any number of '=' added yields the plaintext.
C8_Base32PaddingTolerated ==
    \A w \in Workers :
        (pc[w] = "done" /\ scheme[w] = "Base32") =>
            \A plain \in Plaintexts \ {<<>>} :
                SelectNot(text[w], PadChar) = Base32EncodeNoPad(plain) =>
                    Candidates(scheme[w], ret[w]) = {plain}

\* The Base32 call on "JFXGG33SOJSWG5BAOBQWIZDJNZTQ==", whose padding is two
\* '=' where a padded encoding has four, has returned "Incorrect padding".
C8_Witness ==
    \E w \in Workers :
        /\ pc[w] = "done"
        /\ scheme[w] = "Base32"
        /\ text[w] = Base32BrokenPadding
        /\ text[w] # Base32Encode(IncorrectPadding)
        /\ SelectNot(text[w], PadChar) = Base32EncodeNoPad(IncorrectPadding)
        /\ Candidates(scheme[w], ret[w]) = {IncorrectPadding}

\* what a call returns when it runs alone
Alone(s, t, c) ==
    IF s = "base64" THEN Base64Crack(t) ELSE Crack(NewDecoders[s], t, c)

\* everything a call on worker w reads and writes
LocalsOf(w) ==
    <<pc[w], scheme[w], text[w], checker[w], decoded_text[w], results[w],
      checker_result[w], ret[w], checker_calls[w], checker_args[w]>>

\* C9: on parallel workers, in any interleaving, every call returns what it
\* returns when run alone, no step changes a plugin descriptor, and no step
\* of one call changes the state of another call.
C9_CrackIsPure ==
    /\ [](\A w \in Workers :
              pc[w] = "done" => ret[w] = Alone(scheme[w], text[w], checker[w]))
    /\ [][decoders' = decoders]_vars
    /\ [][\A w \in Workers :
              LocalsOf(w)' # LocalsOf(w) =>
                  \A v \in Workers \ {w} : LocalsOf(v)' = LocalsOf(v)]_vars

\* Two calls on different texts are past their decode at the same time, one
\* of them about to return a candidate.
C9_Witness ==
    \E w \in Workers : \E v \in Workers \ {w} :
        /\ pc[w] = "return" /\ pc[v] = "unwrap"
        /\ text[w] # text[v]
        /\ is_some(results[w].unencrypted_text)

\* C10: merging a verdict into a record a second time changes nothing, and
\* the merge keeps the candidate, the input text and the descriptor.
C10_MergeIdempotent ==
    [][\A w \in Workers :
          (pc[w] = "update" /\ pc'[w] = "return") =>
              /\ update_checker(results'[w], checker_result[w]) = results'[w]
              /\ results'[w].unencrypted_text = results[w].unencrypted_text
              /\ results'[w].input_text = results[w].input_text
              /\ results'[w].source_descriptor = results[w].source_descriptor
              /\ results'[w].is_identified = checker_result[w].is_identified]_vars

\* A positive verdict has been merged into a record that holds a candidate.
C10_Witness ==
    \E w \in Workers :
        /\ pc[w] = "return"
        /\ is_some(results[w].unencrypted_text)
        /\ checker_result[w].is_identified
        /\ results[w].is_identified

\* whether the call of worker w, whose decoded text survived the filter,
\* invoked the checker exactly once, on the decoded text, and returned a
\* record holding the candidate and the verdict of that invocation
CheckedOnceAndCarried(w) ==
    LET d == unwrap(HelperDecode(scheme[w], text[w]))
    IN  /\ checker_calls[w] = 1
        /\ checker_args[w] = <<d>>
        /\ Candidates(scheme[w], ret[w]) = {d}
        /\ scheme[w] \in RecordSchemes
        /\ ret[w].is_identified = check(checker[w], d).is_identified
        /\ ret[w].description = check(checker[w], d).description
        /\ ret[w].checker_name = check(checker[w], d).checker_name

\* the decoded text of the call of worker w survived the filter
Survived(w) ==
    /\ is_some(HelperDecode(scheme[w], text[w]))
    /\ check_string_success(unwrap(HelperDecode(scheme[w], text[w])), text[w])

\* C11: for every scheme, a call whose decoded text survives the filter
\* invokes the checker exactly once, on the decoded text and not on the
\* input, before it returns, and returns a record with the candidate and
\* that verdict.
C11_CheckerInvokedOnce ==
    \A w \in Workers :
        (pc[w] = "done" /\ Survived(w)) => CheckedOnceAndCarried(w)

\* C11 for the two schemes whose crack takes a checker: Base32 and
\* Base58-Ripple invoke it exactly once, on the decoded text, and return the
\* candidate with its verdict.
C11_RecordSchemesCheckOnce ==
    \A w \in Workers :
        (pc[w] = "done" /\ Survived(w) /\ scheme[w] \in RecordSchemes)
            => CheckedOnceAndCarried(w)

\* A Base32 call has returned a candidate whose verdict differs from the
\* verdict the checker gives on the input text.
C11_RecordSchemesWitness ==
    \E w \in Workers :
        /\ pc[w] = "done" /\ scheme[w] = "Base32" /\ Survived(w)
        /\ checker_args[w] # <<text[w]>>
        /\ ret[w].is_identified # check(checker[w], text[w]).is_identified

=============================================================================
